---- MODULE Spec2Model ----
(***************************************************************************)
(* Model of the Reddit OAuth routes (src/web/routes/redditAuth.js) and of  *)
(* the account linking route (src/web/routes/verification.js).             *)
(*                                                                         *)
(* One browser session is modelled.  Every request works on its own        *)
(* `request.session` object, loaded from the session store when the        *)
(* request starts and written back when its response ends.  A handler is  *)
(* split into one action per stretch of code between two awaits.           *)
(***************************************************************************)
EXTENDS Integers, Sequences, FiniteSets, Bags

\* ------------------------------------------------------------------ bounds
\* Number of requests started in a behaviour.
MaxReqs == 2

\* Largest expires_in (seconds) and largest Date.now() reading (milliseconds)
\* enumerated for the expiry conversion, next to the values 3600 and 1000.
MaxExpiresIn == 3
MaxClock == 3

\* ------------------------------------------------------------------ values
\* JavaScript `undefined` (an absent query parameter, an unset session field).
Undefined == "undefined"

\* Values Math.random() can be rendered to by the entry route.
RandomStates == {"0.11", "0.22"}

\* `error`, `state` and `code` query parameters a callback can carry.
QueryErrors == {Undefined, "", "access_denied"}
QueryStates == {Undefined} \cup RandomStates
QueryCodes == {"c1"}

\* Bodies of the token endpoint: an error body, or a token set.
TokenBodies ==
    { [error |-> "invalid_grant", access_token |-> Undefined,
       refresh_token |-> Undefined, expires_in |-> 0],
      [error |-> Undefined, access_token |-> "at1",
       refresh_token |-> "rt1", expires_in |-> 3600],
      [error |-> Undefined, access_token |-> "at2",
       refresh_token |-> "rt2", expires_in |-> 60] }

\* Answers of the token endpoint: a status, and the body read when it is 200.
NoBody ==
    [error |-> Undefined, access_token |-> Undefined,
     refresh_token |-> Undefined, expires_in |-> 0]
TokenAnswers ==
    {[status |-> 403, body |-> NoBody]} \cup
    {[status |-> 200, body |-> b] : b \in TokenBodies}

\* The account the provider issued an access token for.
AccountOf(accessToken) == IF accessToken = "at1" THEN "alice" ELSE "bob"

\* Answers of the profile endpoint to a bearer token.
ProfileAnswers(accessToken) ==
    { [status |-> 403, name |-> Undefined],
      [status |-> 200, name |-> AccountOf(accessToken)] }

\* Readings of Date.now(), in milliseconds.
ClockReadings == {1000}

\* Discord identity a session can hold (set by the Discord flow).
DiscordIds == {"42"}

\* Response bodies.
UhOh == "uh-oh"
TokenErrorBody == "Error requesting Reddit authorization. Please try again. Contact a developer if the error persists."
ProfileErrorBody == "Error fetching your account details. Please try again. Contact a developer if the error persists."
NoRedditBody == "Not logged in with Reddit"
NoDiscordBody == "Not logged in with Discord"
StorageErrorBody == "An unexpected error occured. Get in touch with a bot developer."

\* JavaScript truthiness of a string-or-undefined value.
Truthy(v) == v /= Undefined /\ v /= ""

\* JavaScript truthiness of an object-or-undefined value (a UserInfo is
\* modelled by its identifying field: `name` for Reddit, `id` for Discord).
Present(info) == info /= Undefined

VARIABLES
    sessionStore,   \* the session as persisted by the session middleware
    links,          \* the redditAccounts collection, a bag of link records
    req,            \* request id -> the request's handler state
    started         \* number of requests started so far

vars == <<sessionStore, links, req, started>>

Reqs == 1..MaxReqs

\* ------------------------------------------------------------------ session
EmptySession ==
    [ redditState |-> Undefined,
      redditAccessToken |-> Undefined,
      redditRefreshToken |-> Undefined,
      redditTokenExpiresAt |-> -1,
      redditUserInfo |-> Undefined,
      discordUserInfo |-> Undefined ]

\* A session in which an earlier Reddit login has completed.
LoggedInSession ==
    [ EmptySession EXCEPT
        !.redditState = "0.11",
        !.redditAccessToken = "at1",
        !.redditRefreshToken = "rt1",
        !.redditTokenExpiresAt = 1000 + 3600 * 1000,
        !.redditUserInfo = "alice" ]

\* ------------------------------------------------------------------ response
\* `threw` records that a call on the response threw because the head had
\* already been sent; the statements after that call are not executed.
NoResponse ==
    [ status |-> 200, body |-> Undefined, location |-> Undefined,
      headersSent |-> FALSE, ended |-> FALSE, threw |-> FALSE ]

\* response.writeHead(code): throws once the head has been sent.
writeHead(res, code) ==
    IF res.headersSent
    THEN [res EXCEPT !.threw = TRUE]
    ELSE [res EXCEPT !.status = code, !.headersSent = TRUE]

\* response.end(body): a second end is ignored.
end(res, body) ==
    IF res.ended
    THEN res
    ELSE [res EXCEPT !.body = body, !.headersSent = TRUE, !.ended = TRUE]

\* response.redirect(location): a 302 with a Location header, then end.
redirect(res, location) ==
    LET head == writeHead(res, 302)
    IN IF head.threw
       THEN head
       ELSE end([head EXCEPT !.location = location], "")

\* ------------------------------------------------------------------ requests
NoQuery == [error |-> Undefined, state |-> Undefined, code |-> Undefined]
NoTokens == [accessToken |-> Undefined, refreshToken |-> Undefined, expiresIn |-> 0]
\* What a request has seen of its upstream answers (status 0: no answer yet).
NoTokenResponse == [status |-> 0, error |-> Undefined, access_token |-> Undefined]
NoProfileResponse == [status |-> 0, name |-> Undefined]

IdleRequest ==
    [ kind |-> "idle", pc |-> "idle",
      query |-> NoQuery,
      session |-> EmptySession, loaded |-> EmptySession,
      tokens |-> NoTokens,
      tokenCalls |-> <<>>, tokenResponse |-> NoTokenResponse,
      profileCalls |-> <<>>, profileResponse |-> NoProfileResponse,
      now |-> 0,
      findCalls |-> <<>>, findResult |-> "none",
      insertCalls |-> <<>>, insertResult |-> "none",
      overlaps |-> {},
      res |-> NoResponse ]

\* The requests being handled (started, response not yet ended).
InFlight == {q \in Reqs : req[q].pc \notin {"idle", "done"}}

\* The session middleware hands the request its session object.
LoadSession(r, kind) ==
    [ IdleRequest EXCEPT !.kind = kind, !.session = sessionStore,
                         !.loaded = sessionStore, !.overlaps = InFlight ]

\* The session middleware persists a modified session when the response ends.
SaveSession(rec) ==
    IF rec.res.ended /\ rec.session /= rec.loaded THEN rec.session ELSE sessionStore

\* authURI(state); encodeURIComponent leaves the digits and dot of a number as is.
authURI(state) == <<"https://old.reddit.com/api/v1/authorize", "state", state>>

\* ------------------------------------------------------------------ GET /auth/reddit/
\* EntryHandler without the assignment to the session.
EntryHandler_NoStore(rec, state) ==
    [rec EXCEPT !.res = redirect(rec.res, authURI(state)), !.pc = "done"]

\* The entry handler, given the rendered Math.random() value.
EntryHandler(rec, state) ==
    LET r1 == [rec EXCEPT !.session.redditState = state]
    IN [r1 EXCEPT !.res = redirect(r1.res, authURI(state)), !.pc = "done"]

Entry(r) ==
    /\ r = started + 1
    /\ r \in Reqs
    /\ \E state \in RandomStates :
         LET r2 == EntryHandler(LoadSession(r, "entry"), state)
         IN /\ req' = [req EXCEPT ![r] = r2]
            /\ sessionStore' = SaveSession(r2)
    /\ started' = r
    /\ UNCHANGED links

\* ------------------------------------------------------------------ GET /auth/reddit/callback
\* CallbackBegin without the comparison of `state` with the session.
CallbackBegin_NoStateCheck(rec) ==
    IF Truthy(rec.query.error)
    THEN [rec EXCEPT !.res = end(rec.res, UhOh), !.pc = "done"]
    ELSE [rec EXCEPT !.tokenCalls = Append(@, rec.query.code), !.pc = "awaitToken"]

\* CallbackBegin without the test of the `error` parameter.
CallbackBegin_NoErrorCheck(rec) ==
    IF rec.query.state /= rec.session.redditState
    THEN [rec EXCEPT !.res = end(rec.res, UhOh), !.pc = "done"]
    ELSE [rec EXCEPT !.tokenCalls = Append(@, rec.query.code), !.pc = "awaitToken"]

\* The handler up to its first await: the two guards, then the token request.
CallbackBegin(rec) ==
    IF Truthy(rec.query.error)
    THEN [rec EXCEPT !.res = end(rec.res, UhOh), !.pc = "done"]
    ELSE IF rec.query.state /= rec.session.redditState
    THEN [rec EXCEPT !.res = end(rec.res, UhOh), !.pc = "done"]
    ELSE [rec EXCEPT !.tokenCalls = Append(@, rec.query.code), !.pc = "awaitToken"]

Callback(r) ==
    /\ r = started + 1
    /\ r \in Reqs
    /\ \E error \in QueryErrors, state \in QueryStates, code \in QueryCodes :
         LET r0 == [LoadSession(r, "callback") EXCEPT
                        !.query = [error |-> error, state |-> state, code |-> code]]
             r1 == CallbackBegin(r0)
         IN /\ req' = [req EXCEPT ![r] = r1]
            /\ sessionStore' = SaveSession(r1)
    /\ started' = r
    /\ UNCHANGED links

\* TokenExchangeThrows without the test of the body's error field.
TokenExchangeThrows_StatusOnly(status, body) == status /= 200

\* fetchRedditTokens after its fetch has answered: TRUE when it throws.
TokenExchangeThrows(status, body) ==
    \/ status /= 200
    \/ Truthy(body.error)

\* The token set fetchRedditTokens returns.
TokenSet(body) ==
    [ accessToken |-> body.access_token,
      refreshToken |-> body.refresh_token,
      expiresIn |-> body.expires_in ]

\* ExpiresAt without the conversion of seconds to milliseconds.
ExpiresAt_Seconds(now, expiresIn) == now + expiresIn

\* new Date(Date.now() + tokens.expiresIn * 1000), as its millisecond value.
ExpiresAt(now, expiresIn) == now + expiresIn * 1000

\* What the handler records of the answer of the token endpoint.
TokenAnswerSeen(status, body) ==
    [status |-> status, error |-> body.error, access_token |-> body.access_token]

\* CallbackTokens fetching the profile with the token the session held.
CallbackTokens_SessionToken(rec, status, body, now) ==
    LET r0 == [rec EXCEPT !.tokenResponse = TokenAnswerSeen(status, body)]
    IN IF TokenExchangeThrows(status, body)
       THEN [r0 EXCEPT !.res = end(r0.res, TokenErrorBody), !.pc = "done"]
       ELSE LET tokens == TokenSet(body)
            IN [r0 EXCEPT
                  !.tokens = tokens,
                  !.now = now,
                  !.session.redditAccessToken = tokens.accessToken,
                  !.session.redditRefreshToken = tokens.refreshToken,
                  !.session.redditTokenExpiresAt = ExpiresAt(now, tokens.expiresIn),
                  !.profileCalls = Append(@, rec.session.redditAccessToken),
                  !.pc = "awaitProfile"]

\* CallbackTokens returning from its catch block without ending the response.
CallbackTokens_NoResponse(rec, status, body, now) ==
    LET r0 == [rec EXCEPT !.tokenResponse = TokenAnswerSeen(status, body)]
    IN IF TokenExchangeThrows(status, body)
       THEN [r0 EXCEPT !.pc = "done"]
       ELSE LET tokens == TokenSet(body)
            IN [r0 EXCEPT
                  !.tokens = tokens,
                  !.now = now,
                  !.session.redditAccessToken = tokens.accessToken,
                  !.session.redditRefreshToken = tokens.refreshToken,
                  !.session.redditTokenExpiresAt = ExpiresAt(now, tokens.expiresIn),
                  !.profileCalls = Append(@, tokens.accessToken),
                  !.pc = "awaitProfile"]

\* CallbackTokens answering with the provider's error value.
CallbackTokens_LeakError(rec, status, body, now) ==
    LET r0 == [rec EXCEPT !.tokenResponse = TokenAnswerSeen(status, body)]
    IN IF TokenExchangeThrows(status, body)
       THEN [r0 EXCEPT !.res = end(r0.res, IF status = 200 THEN body.error
                                                           ELSE TokenErrorBody),
                       !.pc = "done"]
       ELSE LET tokens == TokenSet(body)
            IN [r0 EXCEPT
                  !.tokens = tokens,
                  !.now = now,
                  !.session.redditAccessToken = tokens.accessToken,
                  !.session.redditRefreshToken = tokens.refreshToken,
                  !.session.redditTokenExpiresAt = ExpiresAt(now, tokens.expiresIn),
                  !.profileCalls = Append(@, tokens.accessToken),
                  !.pc = "awaitProfile"]

\* The handler from the return of the token exchange to its next await.
CallbackTokens(rec, status, body, now) ==
    LET r0 == [rec EXCEPT !.tokenResponse = TokenAnswerSeen(status, body)]
    IN IF TokenExchangeThrows(status, body)
       THEN [r0 EXCEPT !.res = end(r0.res, TokenErrorBody), !.pc = "done"]
       ELSE LET tokens == TokenSet(body)
            IN [r0 EXCEPT
                  !.tokens = tokens,
                  !.now = now,
                  !.session.redditAccessToken = tokens.accessToken,
                  !.session.redditRefreshToken = tokens.refreshToken,
                  !.session.redditTokenExpiresAt = ExpiresAt(now, tokens.expiresIn),
                  !.profileCalls = Append(@, tokens.accessToken),
                  !.pc = "awaitProfile"]

TokenResponse(r) ==
    /\ r \in Reqs
    /\ req[r].pc = "awaitToken"
    /\ \E answer \in TokenAnswers, now \in ClockReadings :
         LET r1 == CallbackTokens(req[r], answer.status, answer.body, now)
         IN /\ req' = [req EXCEPT ![r] = r1]
            /\ sessionStore' = SaveSession(r1)
    /\ UNCHANGED <<links, started>>

\* CallbackProfile with the test of the status inverted.
CallbackProfile_Inverted(rec, status, name) ==
    LET r0 == [rec EXCEPT !.profileResponse = [status |-> status, name |-> name]]
    IN IF status = 200
       THEN [r0 EXCEPT !.res = end(r0.res, ProfileErrorBody), !.pc = "done"]
       ELSE LET r1 == [r0 EXCEPT !.session.redditUserInfo = name]
            IN [r1 EXCEPT !.res = redirect(r1.res, "/"), !.pc = "done"]

\* The handler from the return of the profile fetch to its end.
CallbackProfile(rec, status, name) ==
    LET r0 == [rec EXCEPT !.profileResponse = [status |-> status, name |-> name]]
    IN IF status /= 200
       THEN [r0 EXCEPT !.res = end(r0.res, ProfileErrorBody), !.pc = "done"]
       ELSE LET r1 == [r0 EXCEPT !.session.redditUserInfo = name]
            IN [r1 EXCEPT !.res = redirect(r1.res, "/"), !.pc = "done"]

ProfileResponse(r) ==
    /\ r \in Reqs
    /\ req[r].pc = "awaitProfile"
    /\ \E answer \in ProfileAnswers(req[r].profileCalls[1]) :
         LET r1 == CallbackProfile(req[r], answer.status, answer.name)
         IN /\ req' = [req EXCEPT ![r] = r1]
            /\ sessionStore' = SaveSession(r1)
    /\ UNCHANGED <<links, started>>

\* ------------------------------------------------------------------ POST /verify
\* The record both storage calls are given.
LinkOf(session) ==
    [userID |-> session.discordUserInfo, redditName |-> session.redditUserInfo]

\* VerifyBegin with the Discord guard ahead of the Reddit guard.
VerifyBegin_DiscordFirst(rec) ==
    IF ~Present(rec.session.discordUserInfo)
    THEN [rec EXCEPT !.res = end(writeHead(rec.res, 401), NoDiscordBody), !.pc = "done"]
    ELSE IF ~Present(rec.session.redditUserInfo)
    THEN [rec EXCEPT !.res = end(writeHead(rec.res, 401), NoRedditBody), !.pc = "done"]
    ELSE [rec EXCEPT !.findCalls = Append(@, LinkOf(rec.session)), !.pc = "awaitFind"]

\* The handler up to its first await: the two 401 guards, then findOne.
VerifyBegin(rec) ==
    IF ~Present(rec.session.redditUserInfo)
    THEN [rec EXCEPT !.res = end(writeHead(rec.res, 401), NoRedditBody), !.pc = "done"]
    ELSE IF ~Present(rec.session.discordUserInfo)
    THEN [rec EXCEPT !.res = end(writeHead(rec.res, 401), NoDiscordBody), !.pc = "done"]
    ELSE [rec EXCEPT !.findCalls = Append(@, LinkOf(rec.session)), !.pc = "awaitFind"]

Verify(r) ==
    /\ r = started + 1
    /\ r \in Reqs
    /\ LET r1 == VerifyBegin(LoadSession(r, "verify"))
       IN /\ req' = [req EXCEPT ![r] = r1]
          /\ sessionStore' = SaveSession(r1)
    /\ started' = r
    /\ UNCHANGED links

\* The statements after the try block: writeHead(201), then end().
VerifyTail(res) ==
    LET head == writeHead(res, 201)
    IN IF head.threw THEN head ELSE end(head, Undefined)

\* VerifyCatch without its writeHead(500).
VerifyCatch_NoStatus(rec) ==
    LET caught == end(rec.res, StorageErrorBody)
    IN [rec EXCEPT !.res = VerifyTail(caught), !.pc = "done"]

\* The catch block, which falls through to the statements after the try.
VerifyCatch(rec) ==
    LET caught == end(writeHead(rec.res, 500), StorageErrorBody)
    IN [rec EXCEPT !.res = VerifyTail(caught), !.pc = "done"]

\* findOne as the collection answers it.
findOne(coll, query) == IF CopiesIn(query, coll) > 0 THEN "found" ELSE "absent"

\* insertOne as the collection applies it.
insertOne(coll, record) == coll (+) SetToBag({record})

\* VerifyFound without the early return on an existing link.
VerifyFound_AlwaysInsert(rec, result) ==
    LET r0 == [rec EXCEPT !.findResult = result]
    IN IF result = "fault"
       THEN VerifyCatch(r0)
       ELSE [r0 EXCEPT !.insertCalls = Append(@, LinkOf(r0.session)), !.pc = "awaitInsert"]

\* VerifyFound returning on a missing link and inserting on an existing one.
VerifyFound_Inverted(rec, result) ==
    LET r0 == [rec EXCEPT !.findResult = result]
    IN IF result = "fault"
       THEN VerifyCatch(r0)
       ELSE IF result = "absent"
       THEN [r0 EXCEPT !.res = end(writeHead(r0.res, 201), Undefined), !.pc = "done"]
       ELSE [r0 EXCEPT !.insertCalls = Append(@, LinkOf(r0.session)), !.pc = "awaitInsert"]

\* VerifyFound inserting a record that lacks the Reddit name.
VerifyFound_WrongRecord(rec, result) ==
    LET r0 == [rec EXCEPT !.findResult = result]
    IN IF result = "fault"
       THEN VerifyCatch(r0)
       ELSE IF result = "found"
       THEN [r0 EXCEPT !.res = end(writeHead(r0.res, 201), Undefined), !.pc = "done"]
       ELSE [r0 EXCEPT !.insertCalls =
                           Append(@, [LinkOf(r0.session) EXCEPT !.redditName = Undefined]),
                       !.pc = "awaitInsert"]

\* The handler from the return of findOne to its next await or its end.
VerifyFound(rec, result) ==
    LET r0 == [rec EXCEPT !.findResult = result]
    IN IF result = "fault"
       THEN VerifyCatch(r0)
       ELSE IF result = "found"
       THEN [r0 EXCEPT !.res = end(writeHead(r0.res, 201), Undefined), !.pc = "done"]
       ELSE [r0 EXCEPT !.insertCalls = Append(@, LinkOf(r0.session)), !.pc = "awaitInsert"]

FindReturn(r) ==
    /\ r \in Reqs
    /\ req[r].pc = "awaitFind"
    /\ \E result \in {findOne(links, req[r].findCalls[1]), "fault"} :
         LET r1 == VerifyFound(req[r], result)
         IN /\ req' = [req EXCEPT ![r] = r1]
            /\ sessionStore' = SaveSession(r1)
    /\ UNCHANGED <<links, started>>

\* The handler from the return of insertOne to its end.
VerifyInserted(rec, result) ==
    LET r0 == [rec EXCEPT !.insertResult = result]
    IN IF result = "fault"
       THEN VerifyCatch(r0)
       ELSE [r0 EXCEPT !.res = VerifyTail(r0.res), !.pc = "done"]

InsertReturn(r) ==
    /\ r \in Reqs
    /\ req[r].pc = "awaitInsert"
    /\ \E result \in {"ok", "fault"} :
         LET r1 == VerifyInserted(req[r], result)
         IN /\ req' = [req EXCEPT ![r] = r1]
            /\ links' = IF result = "ok"
                        THEN insertOne(links, req[r].insertCalls[1])
                        ELSE links
            /\ sessionStore' = SaveSession(r1)
    /\ UNCHANGED started

\* ------------------------------------------------------------------ specification
\* A link record an earlier POST /verify of the logged-in session has stored.
StoredLink == [userID |-> "42", redditName |-> "alice"]

Init ==
    /\ \E reddit \in {EmptySession, LoggedInSession},
          discord \in DiscordIds \cup {Undefined} :
         sessionStore = [reddit EXCEPT !.discordUserInfo = discord]
    /\ links \in {EmptyBag, SetToBag({StoredLink})}
    /\ req = [r \in Reqs |-> IdleRequest]
    /\ started = 0

Next ==
    \E r \in Reqs :
        \/ Entry(r)
        \/ Callback(r)
        \/ TokenResponse(r)
        \/ ProfileResponse(r)
        \/ Verify(r)
        \/ FindReturn(r)
        \/ InsertReturn(r)

Spec == Init /\ [][Next]_vars

\* Every upstream call that a callback awaits is eventually answered, with
\* a success or with a failure.
UpstreamAnswers ==
    \A r \in Reqs : WF_vars(TokenResponse(r)) /\ WF_vars(ProfileResponse(r))

\* The requests of the Reddit flow alone, in a session without Discord
\* identity: the routes of redditAuth.js do not read the link storage.
InitAuth ==
    /\ sessionStore \in {EmptySession, LoggedInSession}
    /\ links = EmptyBag
    /\ req = [r \in Reqs |-> IdleRequest]
    /\ started = 0

NextAuth ==
    \E r \in Reqs :
        \/ Entry(r)
        \/ Callback(r)
        \/ TokenResponse(r)
        \/ ProfileResponse(r)

SpecLive == InitAuth /\ [][NextAuth]_vars /\ UpstreamAnswers

\* ------------------------------------------------------------------ expiry conversion
\* The conversion of expires_in to an absolute expiry, over ranges of
\* expires_in and of clock readings: callbacks that pass both guards and
\* whose token exchange succeeds.
ExpiresIns == (0..MaxExpiresIn) \cup {3600}
Clocks == (0..MaxClock) \cup {1000}

InitExpiry ==
    /\ sessionStore = LoggedInSession
    /\ links = EmptyBag
    /\ req = [r \in Reqs |-> IdleRequest]
    /\ started = 0

ExpiryCallback(r) ==
    /\ r = started + 1
    /\ r \in Reqs
    /\ LET r0 == [LoadSession(r, "callback") EXCEPT
                      !.query = [error |-> Undefined,
                                 state |-> sessionStore.redditState,
                                 code |-> "c1"]]
           r1 == CallbackBegin(r0)
       IN /\ req' = [req EXCEPT ![r] = r1]
          /\ sessionStore' = SaveSession(r1)
    /\ started' = r
    /\ UNCHANGED links

ExpiryTokens(r) ==
    /\ r \in Reqs
    /\ req[r].pc = "awaitToken"
    /\ \E expiresIn \in ExpiresIns, now \in Clocks :
         LET body == [error |-> Undefined, access_token |-> "at1",
                      refresh_token |-> "rt1", expires_in |-> expiresIn]
             r1 == CallbackTokens(req[r], 200, body, now)
         IN /\ req' = [req EXCEPT ![r] = r1]
            /\ sessionStore' = SaveSession(r1)
    /\ UNCHANGED <<links, started>>

NextExpiry == \E r \in Reqs : ExpiryCallback(r) \/ ExpiryTokens(r)

SpecExpiry == InitExpiry /\ [][NextExpiry]_vars

TypeOK ==
    /\ started \in 0..MaxReqs
    /\ \A r \in Reqs : req[r].kind \in {"idle", "entry", "callback", "verify"}

\* ------------------------------------------------------------------ properties
IsCallback(r) == req[r].kind = "callback"
IsVerify(r) == req[r].kind = "verify"
Done(r) == req[r].pc = "done"
Faulted(r) == req[r].findResult = "fault" \/ req[r].insertResult = "fault"

\* A step in which request r receives the answer of its findOne.
FindReturns(r) == req[r].pc = "awaitFind" /\ req'[r].pc /= "awaitFind"

\* The request made no upstream call, left its session object as loaded,
\* issued no redirect and ended with `body`.
StoppedWith(r, body) ==
    /\ Done(r)
    /\ req[r].tokenCalls = <<>>
    /\ req[r].profileCalls = <<>>
    /\ req[r].session = req[r].loaded
    /\ req[r].res.location = Undefined
    /\ req[r].res.ended
    /\ req[r].res.body = body

\* C1: in every reachable state the link storage holds at most one record
\* for any (userID, redditName) pair.  Two POST /verify requests whose
\* findOne calls both answer before either insertOne runs break it.
C1_AtMostOneRecordPerPair ==
    \A link \in BagToSet(links) : CopiesIn(link, links) <= 1

\* Two POST /verify requests of one session, the second started after the
\* first had completed, neither one meeting a storage fault, and no other
\* POST /verify for the same pair.
VerifiedTwice(a, b) ==
    /\ a < b
    /\ IsVerify(a) /\ IsVerify(b)
    /\ Done(a) /\ Done(b)
    /\ req[a].findCalls /= <<>>
    /\ req[b].findCalls = req[a].findCalls
    /\ a \notin req[b].overlaps
    /\ ~Faulted(a) /\ ~Faulted(b)
    /\ \A c \in Reqs \ {a, b} : req[c].findCalls /= req[a].findCalls

\* C2: POST /verify called twice with the same identities, one call after
\* the other and without storage faults, leaves exactly one link record for
\* the pair, and both calls respond 201.
C2_VerifyTwiceStoresOnce ==
    \A a, b \in Reqs :
        VerifiedTwice(a, b) =>
            /\ CopiesIn(req[a].findCalls[1], links) = 1
            /\ req[a].res.status = 201
            /\ req[b].res.status = 201

\* The first of the two calls inserted the record, the second found it.
C2_Witness ==
    \E a, b \in Reqs :
        /\ VerifiedTwice(a, b)
        /\ req[a].insertResult = "ok"
        /\ req[b].findResult = "found"

\* C3: a callback whose `state` differs from the state in its session makes
\* no upstream call, writes nothing to the session, issues no redirect and
\* ends with the generic failure body.
C3_StateMismatchStops ==
    \A r \in Reqs :
        (IsCallback(r) /\ req[r].query.state /= req[r].loaded.redditState)
            => StoppedWith(r, UhOh)

\* A callback without error parameter stopped by the state comparison alone.
C3_Witness ==
    \E r \in Reqs :
        /\ IsCallback(r)
        /\ req[r].query.error = Undefined
        /\ req[r].query.state \in RandomStates
        /\ req[r].loaded.redditState \in RandomStates
        /\ req[r].query.state /= req[r].loaded.redditState
        /\ Done(r)

\* C4 as stated: a callback that carries an `error` parameter, whatever its
\* value, never reaches the token exchange.
C4_AnyErrorParameterStops ==
    \A r \in Reqs :
        (IsCallback(r) /\ req[r].query.error /= Undefined)
            => StoppedWith(r, UhOh)

\* C4: a callback that carries a non-empty `error` parameter never reaches
\* the token exchange, whatever its `state` and `code`: it writes nothing
\* to the session, issues no redirect and ends with the generic failure body.
C4_NonEmptyErrorStops ==
    \A r \in Reqs :
        (IsCallback(r) /\ req[r].query.error \notin {Undefined, ""})
            => StoppedWith(r, UhOh)

\* A callback with an error and the state its session holds.
C4_Witness ==
    \E r \in Reqs :
        /\ IsCallback(r)
        /\ req[r].query.error = "access_denied"
        /\ req[r].query.state = req[r].loaded.redditState
        /\ req[r].query.state \in RandomStates
        /\ Done(r)

\* The token exchange of request r has answered, and with a failure.
TokenExchangeFailed(r) ==
    /\ IsCallback(r)
    /\ req[r].tokenResponse.status /= 0
    /\ \/ req[r].tokenResponse.status /= 200
       \/ req[r].tokenResponse.error \notin {Undefined, ""}

\* C5: when the token exchange fails (non-200 status, or an error field in
\* the body) the callback makes no profile fetch and no session write,
\* issues no redirect and ends with the authorization-error body.
C5_TokenFailureWritesNothing ==
    \A r \in Reqs :
        TokenExchangeFailed(r) =>
            /\ Done(r)
            /\ Len(req[r].tokenCalls) = 1
            /\ req[r].profileCalls = <<>>
            /\ req[r].session = req[r].loaded
            /\ req[r].res.location = Undefined
            /\ req[r].res.ended
            /\ req[r].res.body = TokenErrorBody

\* A 200 answer with an error field, in a session that held a login.
C5_Witness ==
    \E r \in Reqs :
        /\ TokenExchangeFailed(r)
        /\ req[r].tokenResponse.status = 200
        /\ req[r].loaded.redditAccessToken /= Undefined
        /\ Done(r)

\* The profile fetch of request r has answered, and with a failure.
ProfileFetchFailed(r) ==
    /\ IsCallback(r)
    /\ req[r].profileResponse.status \notin {0, 200}

\* C6: tokens and profile are written to the session only when the flow
\* reaches PROFILE_OBTAINED: a callback that ends because its profile fetch
\* failed leaves the session's accessToken, refreshToken, tokenExpiresAt and
\* UserInfo as they were before the request.
C6_ProfileFailureLeavesSession ==
    \A r \in Reqs :
        ProfileFetchFailed(r) =>
            /\ req[r].session.redditAccessToken = req[r].loaded.redditAccessToken
            /\ req[r].session.redditRefreshToken = req[r].loaded.redditRefreshToken
            /\ req[r].session.redditTokenExpiresAt = req[r].loaded.redditTokenExpiresAt
            /\ req[r].session.redditUserInfo = req[r].loaded.redditUserInfo

\* The request answered 401 with `body` and called neither findOne nor insertOne.
Unauthenticated(r, body) ==
    /\ Done(r)
    /\ req[r].res.status = 401
    /\ req[r].res.body = body
    /\ req[r].res.ended
    /\ req[r].findCalls = <<>>
    /\ req[r].insertCalls = <<>>

\* C7: POST /verify without a Reddit UserInfo responds 401 naming Reddit,
\* also when Discord is missing too; with Reddit but without Discord it
\* responds 401 naming Discord; neither findOne nor insertOne is called and
\* the step leaves the storage unchanged.
C7_MissingIdentityIs401 ==
    /\ [](\A r \in Reqs :
            /\ (IsVerify(r) /\ req[r].loaded.redditUserInfo = Undefined)
                  => Unauthenticated(r, NoRedditBody)
            /\ (IsVerify(r) /\ req[r].loaded.redditUserInfo /= Undefined
                            /\ req[r].loaded.discordUserInfo = Undefined)
                  => Unauthenticated(r, NoDiscordBody))
    /\ [][\A r \in Reqs :
            (req'[r] /= req[r] /\ req'[r].kind = "verify" /\ req'[r].res.status = 401)
                => links' = links]_vars

\* A request with a Reddit identity and no Discord identity, answered 401.
C7_Witness ==
    \E r \in Reqs :
        /\ IsVerify(r)
        /\ req[r].loaded.redditUserInfo /= Undefined
        /\ req[r].loaded.discordUserInfo = Undefined
        /\ req[r].res.status = 401
        /\ req[r].res.body = NoDiscordBody

\* C8: when findOne or insertOne faults, the response of that POST /verify
\* has status 500 and the generic storage-error body, not 201.
C8_StorageFaultIs500 ==
    \A r \in Reqs :
        (IsVerify(r) /\ Faulted(r)) =>
            /\ Done(r)
            /\ req[r].res.ended
            /\ req[r].res.status = 500
            /\ req[r].res.body = StorageErrorBody

\* A request whose insertOne faulted.
C8_Witness ==
    \E r \in Reqs : IsVerify(r) /\ req[r].insertResult = "fault" /\ Done(r)

C10_ExistingLinkIs201 ==
    [][\A r \in Reqs :
        (FindReturns(r) /\ CopiesIn(req[r].findCalls[1], links) > 0) =>
            /\ req'[r].pc = "done"
            /\ req'[r].res.status = 201
            /\ req'[r].insertCalls = <<>>
            /\ links' = links]_vars

\* C10: POST /verify with both identities and a matching record already in
\* storage calls no insertOne and leaves the storage unchanged; it responds
\* 201 provided findOne does not fault.
C10_ExistingLinkIsNotInsertedAgain ==
    [][\A r \in Reqs :
        (FindReturns(r) /\ CopiesIn(req[r].findCalls[1], links) > 0) =>
            /\ req'[r].pc = "done"
            /\ req'[r].insertCalls = <<>>
            /\ links' = links
            /\ req'[r].res.ended
            /\ req'[r].findResult /= "fault" => req'[r].res.status = 201]_vars

\* A request that found the stored record and answered 201.
C10_Witness ==
    \E r \in Reqs :
        /\ IsVerify(r) /\ Done(r)
        /\ req[r].findResult = "found"
        /\ req[r].res.status = 201
        /\ req[r].insertCalls = <<>>
        /\ CopiesIn(req[r].findCalls[1], links) = 1

\* The callback passed both guards, its token exchange and its profile fetch.
CallbackSucceeded(r) ==
    /\ req[r].query.error \in {Undefined, ""}
    /\ req[r].query.state = req[r].loaded.redditState
    /\ req[r].tokenResponse.status = 200
    /\ req[r].tokenResponse.error \in {Undefined, ""}
    /\ req[r].profileResponse.status = 200

\* The plain-text bodies a failed callback ends with.
CallbackErrorBodies == {UhOh, TokenErrorBody, ProfileErrorBody}

\* A completed callback either redirected to `/` or ended with an error body.
OneOutcome(r) ==
    /\ req[r].res.ended
    /\ ~req[r].res.threw
    /\ \/ req[r].res.location = "/" /\ req[r].res.status = 302
          /\ req[r].res.body \notin CallbackErrorBodies
       \/ req[r].res.location = Undefined /\ req[r].res.status = 200
          /\ req[r].res.body \in CallbackErrorBodies

\* C11 as stated: a completed callback redirects to `/` exactly when no
\* error parameter was present, the state matched and both upstream calls
\* succeeded; otherwise it ends with an error body and no redirect.
C11_RedirectIffNoErrorParameter ==
    \A r \in Reqs :
        (IsCallback(r) /\ Done(r)) =>
            /\ OneOutcome(r)
            /\ req[r].res.location = "/"
                  <=> (req[r].query.error = Undefined /\ CallbackSucceeded(r))

\* C11: every completed callback has exactly one outcome: a redirect to `/`
\* exactly when no non-empty error parameter was present, the state
\* matched, the token exchange succeeded and the profile fetch succeeded;
\* otherwise a plain-text error body and no redirect.
C11_RedirectIffAllSucceeded ==
    \A r \in Reqs :
        (IsCallback(r) /\ Done(r)) =>
            /\ OneOutcome(r)
            /\ req[r].res.location = "/" <=> CallbackSucceeded(r)

\* One callback redirected and another one ended with an error body.
C11_Witness ==
    \E a, b \in Reqs :
        /\ IsCallback(a) /\ Done(a) /\ req[a].res.location = "/"
        /\ IsCallback(b) /\ Done(b) /\ req[b].res.body = ProfileErrorBody

\* Request r and all requests before it ran one after the other.
Sequential(r) == \A q \in 1..r : req[q].overlaps = {}

\* The entry requests that came before request r.
EntriesBefore(r) == {e \in 1..r : req[e].kind = "entry"}

\* The most recent entry request before request r.
LastEntryBefore(r) == CHOOSE e \in EntriesBefore(r) : \A f \in EntriesBefore(r) : f <= e

\* The state an entry request put into the URI it redirected to.
RedirectedState(e) == req[e].res.location[3]

\* Callback r was let through to the token exchange.
ReachedExchange(r) == req[r].tokenCalls /= <<>>

\* C12: after a sequence of entry requests the session holds the state of
\* the most recent entry redirect; a later callback without an error
\* parameter reaches the token exchange if and only if its `state` is that
\* value, so that a differing value stored by an earlier entry is rejected.
C12_LatestStateOnly ==
    \A r \in Reqs :
        /\ (req[r].kind = "entry" /\ req[r].overlaps = {})
              => req[r].session.redditState = RedirectedState(r)
        /\ (IsCallback(r) /\ Sequential(r) /\ EntriesBefore(r) /= {}
                /\ req[r].query.error = Undefined)
              => /\ req[r].loaded.redditState = RedirectedState(LastEntryBefore(r))
                 /\ ReachedExchange(r)
                       <=> req[r].query.state = RedirectedState(LastEntryBefore(r))
                 /\ ~ReachedExchange(r) => StoppedWith(r, UhOh)

\* A callback rejected for carrying the state that an earlier entry had
\* stored and a later entry has replaced.
C12_Witness ==
    \E r \in Reqs :
        /\ IsCallback(r) /\ Sequential(r) /\ EntriesBefore(r) /= {}
        /\ req[r].query.error = Undefined
        /\ req[r].query.state = req[LastEntryBefore(r)].loaded.redditState
        /\ req[r].query.state \in RandomStates
        /\ ~ReachedExchange(r)
        /\ Done(r)

\* C13: after a successful token exchange that returned expiresIn = e, the
\* tokenExpiresAt written to the session is the clock reading taken after
\* the exchange plus e * 1000 milliseconds, that is e seconds later (3600
\* seconds for e = 3600).
C13_ExpiryIsSecondsLater ==
    \A r \in Reqs :
        (IsCallback(r) /\ req[r].pc = "awaitProfile") =>
            LET e == req[r].tokens.expiresIn
                elapsed == req[r].session.redditTokenExpiresAt - req[r].now
            IN /\ e \in ExpiresIns
               /\ req[r].now \in Clocks
               /\ elapsed % 1000 = 0
               /\ elapsed \div 1000 = e
               /\ e = 3600 => req[r].session.redditTokenExpiresAt = req[r].now + 3600000

\* An exchange that returned 3600 at a clock reading other than zero.
C13_Witness ==
    \E r \in Reqs :
        /\ IsCallback(r) /\ req[r].pc = "awaitProfile"
        /\ req[r].tokens.expiresIn = 3600
        /\ req[r].now = 1000
        /\ req[r].session.redditTokenExpiresAt = 3601000

\* C14: every POST /verify writes its response head and ends its response
\* exactly once on every path; no call on the response is made after the
\* response has ended.
C14_RespondsExactlyOnce ==
    \A r \in Reqs :
        (IsVerify(r) /\ Done(r)) =>
            /\ req[r].res.headersSent
            /\ req[r].res.ended
            /\ ~req[r].res.threw

\* C15: a callback reaches the token exchange only in a session in which
\* an entry request has stored a state; in a session without a stored
\* state no callback reaches it, whatever parameters it has or omits.
C15_ExchangeNeedsStoredState ==
    \A r \in Reqs :
        (IsCallback(r) /\ ReachedExchange(r))
            => req[r].loaded.redditState \in RandomStates

\* The account that holds both fields of a session is one account: the
\* UserInfo is the one the profile endpoint reports for the access token.
SameLogin(session) ==
    (session.redditAccessToken /= Undefined /\ session.redditUserInfo /= Undefined)
        => session.redditUserInfo = AccountOf(session.redditAccessToken)

\* C16: in every reachable session state, a session that holds both a
\* Reddit access token and a Reddit UserInfo holds the UserInfo that was
\* fetched with that access token.
C16_TokensAndProfileSameLogin ==
    /\ SameLogin(sessionStore)
    /\ \A r \in Reqs : (IsCallback(r) /\ Done(r)) => SameLogin(req[r].session)

\* C17: within a callback the profile fetch is issued only after the token
\* exchange of the same request has answered successfully, at most one of
\* each call is issued, and the profile fetch carries the access token that
\* exchange returned.
C17_ExchangeThenProfile ==
    \A r \in Reqs :
        IsCallback(r) =>
            /\ Len(req[r].tokenCalls) <= 1
            /\ Len(req[r].profileCalls) <= 1
            /\ req[r].tokenCalls = <<>> => req[r].tokenResponse.status = 0
            /\ req[r].profileCalls = <<>> => req[r].profileResponse.status = 0
            /\ req[r].profileCalls /= <<>> =>
                  /\ Len(req[r].tokenCalls) = 1
                  /\ req[r].tokenCalls[1] = req[r].query.code
                  /\ req[r].tokenResponse.status = 200
                  /\ req[r].tokenResponse.error \in {Undefined, ""}
                  /\ req[r].profileCalls[1] = req[r].tokenResponse.access_token

\* A profile fetch made with a new token in a session that held another one.
C17_Witness ==
    \E r \in Reqs :
        /\ IsCallback(r)
        /\ req[r].profileCalls /= <<>>
        /\ req[r].loaded.redditAccessToken /= Undefined
        /\ req[r].profileCalls[1] /= req[r].loaded.redditAccessToken

\* C18: a stored state is single-use: of the callbacks that carry it, with
\* no entry request between them, at most one reaches the token exchange.
C18_StateIsSingleUse ==
    \A a, b \in Reqs :
        (/\ a < b
         /\ IsCallback(a) /\ IsCallback(b)
         /\ req[a].query.state \in RandomStates
         /\ req[b].query.state = req[a].query.state
         /\ \A e \in Reqs : (a < e /\ e < b) => req[e].kind /= "entry")
            => ~(ReachedExchange(a) /\ ReachedExchange(b))

\* C19: when every upstream call is eventually answered, every callback
\* eventually ends its response; and a callback that awaits an upstream
\* call takes no step (no timeout, cancellation or retry) other than the
\* one that receives the answer of that call.
C19_CallbackCompletes ==
    /\ \A r \in Reqs : IsCallback(r) ~> (Done(r) /\ req[r].res.ended)
    /\ [][\A r \in Reqs :
            /\ (req[r].pc = "awaitToken" /\ req'[r] /= req[r])
                  => (req[r].tokenResponse.status = 0
                      /\ req'[r].tokenResponse.status /= 0
                      /\ req'[r].tokenCalls = req[r].tokenCalls)
            /\ (req[r].pc = "awaitProfile" /\ req'[r] /= req[r])
                  => (req[r].profileResponse.status = 0
                      /\ req'[r].profileResponse.status /= 0
                      /\ req'[r].profileCalls = req[r].profileCalls)]_vars

\* A callback that has ended after both of its upstream calls were answered.
C19_Witness ==
    \E r \in Reqs :
        /\ IsCallback(r) /\ Done(r) /\ req[r].res.ended
        /\ req[r].tokenResponse.status /= 0
        /\ req[r].profileResponse.status /= 0

\* The stage at which a request failed ("none" when it has not failed).
FailureStage(r) ==
    IF IsCallback(r)
    THEN IF req[r].query.error \notin {Undefined, ""} THEN "provider error"
         ELSE IF req[r].query.state /= req[r].loaded.redditState THEN "state mismatch"
         ELSE IF TokenExchangeFailed(r) THEN "token exchange"
         ELSE IF ProfileFetchFailed(r) THEN "profile fetch"
         ELSE "none"
    ELSE IF IsVerify(r) /\ Faulted(r) THEN "storage"
    ELSE "none"

\* What the server logs of a failure and the caller must not see.
FailureCause(r) ==
    << req[r].query.error, req[r].query.state, req[r].loaded.redditState,
       req[r].tokenResponse, req[r].profileResponse.status,
       req[r].findResult, req[r].insertResult >>

====
